---- MODULE Spec2Model ----
(***************************************************************************)
(* Model of package fiscal (xpt-nl/itc): the 52/53-week fiscal calendar.   *)
(*                                                                         *)
(* An instant (time.Time, always UTC here) is a record                     *)
(*   [d |-> whole days since the anchor 2005-09-25 00:00 UTC,              *)
(*    s |-> second of the day, n |-> nanosecond of the second]             *)
(* so that nanosecond arithmetic stays exact within 32-bit integers.       *)
(* A time.Duration is the same record read as d days + s seconds + n ns    *)
(* with 0 <= s < 86400 and 0 <= n < 10^9 (d carries the sign).             *)
(***************************************************************************)
EXTENDS Integers, Sequences, FiniteSets, TLC

\* ---------------------------------------------------------------- bounds
\* Largest fiscal year number passed to the resolvers and covered by dates.
MaxYear == 2012
\* Smallest year number passed to the resolvers.
MinYear == 2004
\* Dates start this many days before the anchor.
DaysBefore == 2
\* Quarter indexes are drawn from 1 - IdxSlack .. 4 + IdxSlack, period
\* indexes from 1 - IdxSlack .. 12 + IdxSlack.
IdxSlack == 2
\* The scan counter of the classifiers is stopped at this value.
MaxScan == 15

\* ------------------------------------------------------ program constants
\* The fiscal year that starts at the anchor ("the 2006 fiscal year").
FirstFiscalYear == 2006
\* Calendar year of the anchor date.
AnchorCalYear == 2005
\* Offset of September 25 from January 1 in 2005 (243 days to Sep 1, + 24).
AnchorDayOfYear == 267
SecPerDay == 86400
SecPerHour == 3600
NsPerSec == 1000000000

\* ------------------------------------------------------------- time.Time
T(d, s, n) == [d |-> d, s |-> s, n |-> n]

\* time.Date(2005, time.September, 25, 0, 0, 0, 0, time.UTC)
first == T(0, 0, 0)

\* t.Add(k * Day)
AddDays(t, k) == [t EXCEPT !.d = @ + k]

\* t.Add(time.Nanosecond)
AddNanosecond(t) ==
  IF t.n < NsPerSec - 1 THEN [t EXCEPT !.n = @ + 1]
  ELSE IF t.s < SecPerDay - 1 THEN T(t.d, t.s + 1, 0)
  ELSE T(t.d + 1, 0, 0)

\* t.Add(-time.Nanosecond)
SubNanosecond(t) ==
  IF t.n > 0 THEN [t EXCEPT !.n = @ - 1]
  ELSE IF t.s > 0 THEN T(t.d, t.s - 1, NsPerSec - 1)
  ELSE T(t.d - 1, SecPerDay - 1, NsPerSec - 1)

\* a.Before(b), a.After(b)
Before(a, b) ==
  \/ a.d < b.d
  \/ a.d = b.d /\ a.s < b.s
  \/ a.d = b.d /\ a.s = b.s /\ a.n < b.n

After(a, b) == Before(b, a)

\* a.Sub(b): the duration a - b, normalised
Sub(a, b) ==
  LET bn == IF a.n < b.n THEN 1 ELSE 0
      n  == a.n - b.n + bn * NsPerSec
      s0 == a.s - b.s - bn
      bs == IF s0 < 0 THEN 1 ELSE 0
  IN  T(a.d - b.d - bs, s0 + bs * SecPerDay, n)

\* Go's integer division and float-to-int conversion truncate toward zero.
TruncDiv(a, b) == IF a >= 0 THEN a \div b ELSE -((-a) \div b)

\* dur.Round(time.Hour).Hours(): the nearest whole number of hours, halfway
\* values rounded away from zero.
RoundHours(dur) ==
  LET h    == dur.d * 24 + dur.s \div SecPerHour
      rs   == dur.s % SecPerHour
      half == SecPerHour \div 2
      up   == IF dur.d < 0
              THEN rs > half \/ (rs = half /\ dur.n > 0)
              ELSE rs >= half
  IN  IF up THEN h + 1 ELSE h

\* int(date.Sub(start).Round(time.Hour).Hours() / 24)
DaysSinceStart(date, start) == TruncDiv(RoundHours(Sub(date, start)), 24)

\* dur.Hours()/24 > 364 for a duration; the durations Quarter and Period
\* pass are a whole number of days less one nanosecond, for which the
\* float64 quotient compares with 364 as the exact value does.
LongerThan364Days(dur) == dur.d >= 365 \/ (dur.d = 364 /\ (dur.s > 0 \/ dur.n > 0))

\* ------------------------------------------- calendar (t.Year(), t.Day())
IsLeapCal(y) == y % 4 = 0 /\ (y % 100 # 0 \/ y % 400 = 0)

DaysInYear(y) == IF IsLeapCal(y) THEN 366 ELSE 365

DaysInMonth(y, m) ==
  IF m = 2 THEN (IF IsLeapCal(y) THEN 29 ELSE 28)
  ELSE IF m \in {4, 6, 9, 11} THEN 30 ELSE 31

\* <<calendar year, day of that year from 0>> of day number k counted from
\* January 1 of year y
RECURSIVE YearFrom(_, _)
YearFrom(y, k) ==
  IF k < 0 THEN YearFrom(y - 1, k + DaysInYear(y - 1))
  ELSE IF k >= DaysInYear(y) THEN YearFrom(y + 1, k - DaysInYear(y))
  ELSE <<y, k>>

\* day of the month of day k (from 0) of year y, scanning months from m
RECURSIVE DayFrom(_, _, _)
DayFrom(y, m, k) ==
  IF k >= DaysInMonth(y, m) THEN DayFrom(y, m + 1, k - DaysInMonth(y, m))
  ELSE k + 1

\* t.Year()
CalYear(t) == YearFrom(AnchorCalYear, t.d + AnchorDayOfYear)[1]

\* t.Day()
CalDay(t) ==
  LET yd == YearFrom(AnchorCalYear, t.d + AnchorDayOfYear)
  IN  DayFrom(yd[1], 1, yd[2])

\* ------------------------------------------------------------------ Year
\* CandidateEnd with the threshold one day lower.
CandidateEndBefore24(start) ==
  LET end == AddDays(start, 364)
  IN  IF CalDay(end) < 24 THEN AddDays(end, 7) ELSE end

\* CandidateEnd with two weeks added instead of one.
CandidateEndTwoWeeks(start) ==
  LET end == AddDays(start, 364)
  IN  IF CalDay(end) < 25 THEN AddDays(end, 14) ELSE end

\* One pass of the loop body: the candidate end for a fiscal year that
\* starts at start.
CandidateEnd(start) ==
  LET end == AddDays(start, 364)
  IN  IF CalDay(end) < 25 THEN AddDays(end, 7) ELSE end

\* YearReached with a strict comparison.
YearReachedStrict(end, year) == CalYear(end) > year

\* The loop's exit test.
YearReached(end, year) == CalYear(end) >= year

\* YearEnd without the step back by one nanosecond.
YearEndNoStep(end) == end

\* The value returned for the end of the year.
YearEnd(end) == SubNanosecond(end)

RECURSIVE YearLoop(_, _)
YearLoop(start, year) ==
  LET end == CandidateEnd(start)
  IN  IF YearReached(end, year) THEN <<start, YearEnd(end)>>
      ELSE YearLoop(end, year)

\* Year(year) = <<start, end>>
Year(year) == YearLoop(first, year)

\* --------------------------------------------------------------- Quarter
\* The two clamping ifs at the head of Quarter.
ClampQuarter(quarter) ==
  LET q1 == IF quarter < 1 THEN 1 ELSE quarter
  IN  IF q1 > 4 THEN 4 ELSE q1

\* Whether the fiscal year <<start, end>> has the extra week.
IsLongYear(ye) == LongerThan364Days(Sub(ye[2], ye[1]))

\* QuarterStartDays with the extra week entering one quarter late.
QuarterStartDaysLate(q, long) ==
  q * 91 + (IF long THEN ((q + 2) \div 4) * 7 ELSE 0)

\* qstart and qend, in days, for the zero-based quarter q.
QuarterStartDays(q, long) ==
  q * 91 + (IF long THEN ((q + 3) \div 4) * 7 ELSE 0)

QuarterEndDays(q, long) ==
  (q + 1) * 91 + (IF long THEN ((q + 4) \div 4) * 7 ELSE 0)

\* Quarter(year, quarter) = <<start, end>>
Quarter(year, quarter) ==
  LET ye   == Year(year)
      q    == ClampQuarter(quarter) - 1
      long == IsLongYear(ye)
  IN  << AddDays(ye[1], QuarterStartDays(q, long)),
         SubNanosecond(AddDays(ye[1], QuarterEndDays(q, long))) >>

\* ---------------------------------------------------------------- Period
\* ClampPeriod without the upper clamp.
ClampPeriodLowOnly(period) == IF period < 1 THEN 1 ELSE period

\* The two clamping ifs at the head of Period.
ClampPeriod(period) ==
  LET p1 == IF period < 1 THEN 1 ELSE period
  IN  IF p1 > 12 THEN 12 ELSE p1

\* PeriodStartDays with the extra week entering one period early.
PeriodStartDaysEarly(p, long) ==
  p * 28 + ((p + 2) \div 3) * 7 + (IF long THEN ((p + 10) \div 12) * 7 ELSE 0)

\* PeriodEndDays with the extra week entering one period late.
PeriodEndDaysLate(p, long) ==
  (p + 1) * 28 + ((p + 3) \div 3) * 7
    + (IF long THEN ((p + 9) \div 12) * 7 ELSE 0)

\* pstart and pend, in days, for the zero-based period p.
PeriodStartDays(p, long) ==
  p * 28 + ((p + 2) \div 3) * 7 + (IF long THEN ((p + 9) \div 12) * 7 ELSE 0)

PeriodEndDays(p, long) ==
  (p + 1) * 28 + ((p + 3) \div 3) * 7
    + (IF long THEN ((p + 10) \div 12) * 7 ELSE 0)

\* Period(year, period) = <<start, end>>
Period(year, period) ==
  LET ye   == Year(year)
      p    == ClampPeriod(period) - 1
      long == IsLongYear(ye)
  IN  << AddDays(ye[1], PeriodStartDays(p, long)),
         SubNanosecond(AddDays(ye[1], PeriodEndDays(p, long))) >>

\* ----------------------------------------------------------- classifiers
\* YearForDate(date)
YearForDate(date) ==
  LET end == Year(CalYear(date))[2]
  IN  IF Before(end, date) THEN CalYear(date) + 1 ELSE CalYear(date)

\* The head of QuarterForDate and PeriodForDate: <<year, start>> as they
\* stand when daysSinceStart is computed.
YearAndStart(date) ==
  LET ye == Year(CalYear(date))
  IN  IF Before(ye[2], date)
      THEN <<CalYear(date) + 1, AddNanosecond(ye[2])>>
      ELSE <<CalYear(date), ye[1]>>

\* The initial value of the scan counter.
QuarterSeed(date, start) == 1 + TruncDiv(DaysSinceStart(date, start), 98)

PeriodSeed(date, start) == 1 + TruncDiv(DaysSinceStart(date, start), 35)

\* Contains without the test against the start of the range.
ContainsEndOnly(range, date) == ~After(date, range[2])

\* !date.Before(start) && !date.After(end)
Contains(range, date) == ~Before(date, range[1]) /\ ~After(date, range[2])

\* ----------------------------------------------------------------- state
VARIABLES
  pc,     \* "idle", "walk" (inside Year's loop), "scan" (inside a
          \* classifier's loop) or "done" (the call has returned)
  op,     \* the function being called
  date,   \* the date argument of a classifier
  year,   \* the year argument, or the classifier's variable year
  idx,    \* the quarter or period argument, or the classifier's counter
  start,  \* Year's variable start, or the start returned by a resolver
  end,    \* Year's variable end, or the end returned by a resolver
  iters   \* the number of passes through Year's loop body in this call

vars == <<pc, op, date, year, idx, start, end, iters>>

\* The inputs.
TimesOfDay ==
  { <<0, 0>>, <<0, 1>>, <<1799, 999999999>>, <<1800, 0>>, <<43200, 0>>,
    <<84599, 999999999>>, <<84600, 0>>, <<86399, 999999998>>,
    <<86399, 999999999>> }

LastDay == Year(MaxYear)[2].d + 1

\* Days well before the anchor: 35, 98 and 400 days, the last in 2004.
EarlyDays == { -35, -98, -400 }

Dates ==
  { T(d, tod[1], tod[2]) :
      d \in ((-DaysBefore) .. LastDay) \cup EarlyDays, tod \in TimesOfDay }

Years == MinYear .. MaxYear + 1

QuarterIdxs == (1 - IdxSlack) .. (4 + IdxSlack)

PeriodIdxs == (1 - IdxSlack) .. (12 + IdxSlack)

Init ==
  /\ pc = "idle"
  /\ op = "none"
  /\ date = first
  /\ year = 0
  /\ idx = 0
  /\ start = first
  /\ end = first
  /\ iters = 0

\* Year is entered: start = first.
CallYear ==
  /\ pc = "idle"
  /\ \E y \in Years :
     /\ pc' = "walk"
     /\ op' = "Year"
     /\ year' = y
     /\ start' = first
     /\ end' = first
     /\ iters' = 0
     /\ UNCHANGED <<date, idx>>

\* One iteration of Year's loop: it returns, or moves start to end.
YearIter ==
  /\ pc = "walk"
  /\ LET e == CandidateEnd(start)
     IN  IF YearReached(e, year)
         THEN /\ pc' = "done"
              /\ end' = YearEnd(e)
              /\ start' = start
         ELSE /\ pc' = "walk"
              /\ end' = e
              /\ start' = e
  /\ iters' = iters + 1
  /\ UNCHANGED <<op, date, year, idx>>

CallQuarter ==
  /\ pc = "idle"
  /\ \E y \in Years, i \in QuarterIdxs :
     /\ pc' = "done"
     /\ op' = "Quarter"
     /\ year' = y
     /\ idx' = i
     /\ start' = Quarter(y, i)[1]
     /\ end' = Quarter(y, i)[2]
     /\ UNCHANGED <<date, iters>>

CallPeriod ==
  /\ pc = "idle"
  /\ \E y \in Years, i \in PeriodIdxs :
     /\ pc' = "done"
     /\ op' = "Period"
     /\ year' = y
     /\ idx' = i
     /\ start' = Period(y, i)[1]
     /\ end' = Period(y, i)[2]
     /\ UNCHANGED <<date, iters>>

CallYearForDate ==
  /\ pc = "idle"
  /\ \E t \in Dates :
     /\ pc' = "done"
     /\ op' = "YearForDate"
     /\ date' = t
     /\ year' = YearForDate(t)
     /\ UNCHANGED <<idx, start, end, iters>>

\* QuarterForDate up to the first test of its loop.
CallQuarterForDate ==
  /\ pc = "idle"
  /\ \E t \in Dates :
     /\ pc' = "scan"
     /\ op' = "QuarterForDate"
     /\ date' = t
     /\ LET ys == YearAndStart(t)
        IN  /\ year' = ys[1]
            /\ idx' = QuarterSeed(t, ys[2])
            /\ start' = ys[2]
            /\ end' = Year(CalYear(t))[2]
     /\ UNCHANGED iters

\* One iteration of QuarterForDate's loop.
QuarterScan ==
  /\ pc = "scan"
  /\ op = "QuarterForDate"
  /\ LET r == Quarter(year, idx)
     IN  /\ start' = r[1]
         /\ end' = r[2]
         /\ IF Contains(r, date)
            THEN pc' = "done" /\ idx' = idx
            ELSE idx < MaxScan /\ pc' = "scan" /\ idx' = idx + 1
  /\ UNCHANGED <<op, date, year, iters>>

\* PeriodForDate up to the first test of its loop.
CallPeriodForDate ==
  /\ pc = "idle"
  /\ \E t \in Dates :
     /\ pc' = "scan"
     /\ op' = "PeriodForDate"
     /\ date' = t
     /\ LET ys == YearAndStart(t)
        IN  /\ year' = ys[1]
            /\ idx' = PeriodSeed(t, ys[2])
            /\ start' = ys[2]
            /\ end' = Year(CalYear(t))[2]
     /\ UNCHANGED iters

\* One iteration of PeriodForDate's loop.
PeriodScan ==
  /\ pc = "scan"
  /\ op = "PeriodForDate"
  /\ LET r == Period(year, idx)
     IN  /\ start' = r[1]
         /\ end' = r[2]
         /\ IF Contains(r, date)
            THEN pc' = "done" /\ idx' = idx
            ELSE idx < MaxScan /\ pc' = "scan" /\ idx' = idx + 1
  /\ UNCHANGED <<op, date, year, iters>>

\* The caller takes the result; the next call starts from fresh locals.
Return ==
  /\ pc = "done"
  /\ pc' = "idle"
  /\ op' = "none"
  /\ date' = first
  /\ year' = 0
  /\ idx' = 0
  /\ start' = first
  /\ end' = first
  /\ iters' = 0

Next ==
  \/ CallYear
  \/ YearIter
  \/ CallQuarter
  \/ CallPeriod
  \/ CallYearForDate
  \/ CallQuarterForDate
  \/ QuarterScan
  \/ CallPeriodForDate
  \/ PeriodScan
  \/ Return

Spec == Init /\ [][Next]_vars

TypeOK ==
  /\ pc \in {"idle", "walk", "scan", "done"}
  /\ op \in {"none", "Year", "Quarter", "Period", "YearForDate",
             "QuarterForDate", "PeriodForDate"}
  /\ year \in Int
  /\ idx \in Int
  /\ iters \in Nat

\* ================================================================ claims
\* The fiscal years the claims range over: the documented domain, from the
\* year that starts at the anchor up to the last year the dates reach.
FiscalYears == FirstFiscalYear .. MaxYear + 1

\* C1: for every instant t inside Period(y, p), with y a fiscal year of the
\* documented domain and p in 1..12, PeriodForDate(t) returns (y, p): a
\* returned result is (y, p), and while the call is still scanning its year
\* is y and its counter has not passed p.
C1_PeriodForDateInverts ==
  (op = "PeriodForDate" /\ pc \in {"scan", "done"}) =>
    \A y \in FiscalYears, p \in 1 .. 12 :
      Contains(Period(y, p), date) =>
        /\ year = y
        /\ IF pc = "done" THEN idx = p ELSE idx <= p

\* C2: for every instant t inside Quarter(y, q), with y a fiscal year of the
\* documented domain and q in 1..4, QuarterForDate(t) returns (y, q): a
\* returned result is (y, q), and while the call is still scanning its year
\* is y and its counter has not passed q.
C2_QuarterForDateInverts ==
  (op = "QuarterForDate" /\ pc \in {"scan", "done"}) =>
    \A y \in FiscalYears, q \in 1 .. 4 :
      Contains(Quarter(y, q), date) =>
        /\ year = y
        /\ IF pc = "done" THEN idx = q ELSE idx <= q

\* C3: for every fiscal year y of the documented domain and every instant t
\* with Year(y).start <= t <= Year(y).end, YearForDate(t) returns y.
C3_YearForDateInverts ==
  (op = "YearForDate" /\ pc = "done") =>
    \A y \in FiscalYears : Contains(Year(y), date) => year = y

\* The range <<start, end>> is exactly k days long, end being its last
\* nanosecond.
LenIs(range, k) == Sub(AddNanosecond(range[2]), range[1]) = T(k, 0, 0)

\* A call of the named resolver has returned for a year of the domain.
Returned(name) == op = name /\ pc = "done" /\ year \in FiscalYears

\* C4: fiscal years are contiguous: for every year y of the documented
\* domain, Year(y).end plus one nanosecond is Year(y + 1).start.
C4_YearsContiguous ==
  Returned("Year") => AddNanosecond(end) = Year(year + 1)[1]

C4_Witness ==
  /\ Returned("Year")
  /\ year > FirstFiscalYear
  /\ LenIs(<<start, end>>, 371)

\* C5: a fiscal year of the documented domain is exactly 364 or 371 days
\* long, and 371 days exactly when the instant 364 days after its start has
\* a day of the month below 25.
C5_YearLength ==
  Returned("Year") =>
    /\ LenIs(<<start, end>>, 364) \/ LenIs(<<start, end>>, 371)
    /\ LenIs(<<start, end>>, 371) <=> (CalDay(AddDays(start, 364)) < 25)

C5_Witness ==
  /\ Returned("Year")
  /\ CalDay(AddDays(start, 364)) = 24
  /\ LenIs(<<start, end>>, 371)

\* C6: quarters partition their fiscal year: quarter 1 starts at the year's
\* start, quarter 4 ends at the year's end, and each quarter q < 4 ends one
\* nanosecond before quarter q + 1 starts.
C6_QuartersPartitionYear ==
  (Returned("Quarter") /\ idx \in 1 .. 4) =>
    /\ idx = 1 => start = Year(year)[1]
    /\ idx = 4 => end = Year(year)[2]
    /\ idx < 4 => AddNanosecond(end) = Quarter(year, idx + 1)[1]

C6_Witness ==
  /\ Returned("Quarter")
  /\ idx = 1
  /\ LenIs(Year(year), 371)
  /\ AddNanosecond(end) = AddDays(start, 98)

\* C7: quarters tile into periods: period 3q - 2 starts where quarter q
\* starts, period 3q ends where quarter q ends, each period p < 12 ends one
\* nanosecond before period p + 1 starts, period 1 starts at the year's
\* start and period 12 ends at the year's end.
C7_PeriodsTileQuarters ==
  (Returned("Period") /\ idx \in 1 .. 12) =>
    /\ idx % 3 = 1 => start = Quarter(year, (idx + 2) \div 3)[1]
    /\ idx % 3 = 0 => end = Quarter(year, idx \div 3)[2]
    /\ idx < 12 => AddNanosecond(end) = Period(year, idx + 1)[1]
    /\ idx = 1 => start = Year(year)[1]
    /\ idx = 12 => end = Year(year)[2]

C7_Witness ==
  /\ Returned("Period")
  /\ idx = 3
  /\ LenIs(Year(year), 371)
  /\ end = Quarter(year, 1)[2]

\* C8: leap-week placement: the year is 371 days long iff its quarter 1 is
\* 98 days long iff its period 3 is 35 days long; quarters 2..4 are 91 days,
\* periods 1, 4, 7 and 10 are 35 days and every other period but period 3 is
\* 28 days.
C8_LeapWeekPlacement ==
  /\ Returned("Year") =>
       /\ LenIs(<<start, end>>, 371) <=> LenIs(Quarter(year, 1), 98)
       /\ LenIs(<<start, end>>, 371) <=> LenIs(Period(year, 3), 35)
  /\ (Returned("Quarter") /\ idx \in 1 .. 4) =>
       /\ idx = 1 => (LenIs(<<start, end>>, 98) <=> LenIs(Year(year), 371))
       /\ idx > 1 => LenIs(<<start, end>>, 91)
  /\ (Returned("Period") /\ idx \in 1 .. 12) =>
       /\ idx = 3 => (LenIs(<<start, end>>, 35) <=> LenIs(Year(year), 371))
       /\ idx \in {1, 4, 7, 10} => LenIs(<<start, end>>, 35)
       /\ idx \notin {1, 3, 4, 7, 10} => LenIs(<<start, end>>, 28)

C8_Witness ==
  /\ Returned("Period")
  /\ idx = 3
  /\ year > FirstFiscalYear
  /\ LenIs(<<start, end>>, 35)

\* C9: out-of-range indexes are clamped: for every year, Quarter with an
\* index below 1 returns what Quarter(y, 1) returns and with an index above
\* 4 what Quarter(y, 4) returns; Period likewise with 1 and 12.
C9_IndexesClamped ==
  /\ (op = "Quarter" /\ pc = "done") =>
       /\ idx < 1 => <<start, end>> = Quarter(year, 1)
       /\ idx > 4 => <<start, end>> = Quarter(year, 4)
  /\ (op = "Period" /\ pc = "done") =>
       /\ idx < 1 => <<start, end>> = Period(year, 1)
       /\ idx > 12 => <<start, end>> = Period(year, 12)

C9_Witness ==
  /\ op = "Period"
  /\ pc = "done"
  /\ idx > 12
  /\ AddNanosecond(end) = AddDays(start, 28)

\* C10: the anchor scenarios hold for one year number N: with N the year
\* QuarterForDate returns for anchor + 10 days, the quarter returned is 1,
\* Year(N) is (anchor, anchor + 371 days - 1ns) and
\* YearForDate(anchor + 371 days) is N + 1.
C10_AnchorScenarios ==
  (op = "QuarterForDate" /\ pc = "done" /\ date = AddDays(first, 10)) =>
    /\ idx = 1
    /\ Year(year) = <<first, SubNanosecond(AddDays(first, 371))>>
    /\ YearForDate(AddDays(first, 371)) = year + 1

\* The number of passes after which Year(y) returns: one for a year number
\* up to the first fiscal year, one more for each year above it.
ItersOf(y) == IF y < FirstFiscalYear THEN 1 ELSE y - FirstFiscalYear + 1

\* C11 as stated: for a year number below the anchor year Year never
\* returns, and for a year number at or above it Year returns after the
\* distance from the anchor year plus one passes.
C11_BelowAnchorNeverReturns ==
  op = "Year" =>
    /\ year < FirstFiscalYear => pc # "done"
    /\ (year >= FirstFiscalYear /\ pc = "done") =>
         iters = year - FirstFiscalYear + 1

\* C11 amended: Year returns for every year number; below the anchor year
\* the exit test holds in the first pass and the first fiscal year is
\* returned, at or above it Year returns after the distance from the anchor
\* year plus one passes; until then the pass count is below that number.
C11_YearTerminates ==
  op = "Year" =>
    /\ pc \in {"walk", "done"}
    /\ pc = "walk" => iters < ItersOf(year)
    /\ pc = "done" => iters = ItersOf(year)
    /\ (pc = "done" /\ year < FirstFiscalYear) =>
         <<start, end>> = <<first, SubNanosecond(AddDays(first, 371))>>

C11_Witness ==
  /\ op = "Year"
  /\ pc = "done"
  /\ year < FirstFiscalYear
  /\ iters = 1
  /\ start = first

\* C12: the scan seed never overshoots: for every instant at or after the
\* anchor, the counter with which QuarterForDate enters its loop is at most
\* the index of the quarter of its year that contains the date, and the
\* counter with which PeriodForDate enters its loop is at most the index of
\* the period that contains the date.
C12_SeedNeverOvershoots ==
  [][ (pc = "idle" /\ pc' = "scan" /\ ~Before(date', first)) =>
        /\ op' = "QuarterForDate" =>
             \A q \in 1 .. 4 :
               Contains(Quarter(year', q), date') => idx' <= q
        /\ op' = "PeriodForDate" =>
             \A p \in 1 .. 12 :
               Contains(Period(year', p), date') => idx' <= p ]_vars

\* C13: for an instant strictly before the anchor QuarterForDate and
\* PeriodForDate never return: the call stays in its loop, each pass raises
\* the counter by one, the range at the counter does not contain the date,
\* and once the counter is past 4 (12) the range last resolved is the last
\* quarter (period) of the first fiscal year; YearForDate returns the
\* calendar year of the date.
C13_BeforeAnchorScanNeverReturns ==
  [][ Before(date', first) =>
        /\ op' = "QuarterForDate" =>
             /\ pc' = "scan"
             /\ ~Contains(Quarter(year', idx'), date')
             /\ idx' > 5 => <<start', end'>> = Quarter(FirstFiscalYear, 4)
        /\ op' = "PeriodForDate" =>
             /\ pc' = "scan"
             /\ ~Contains(Period(year', idx'), date')
             /\ idx' > 13 => <<start', end'>> = Period(FirstFiscalYear, 12)
        /\ pc = "scan" => (idx' = idx + 1 /\ date' = date /\ year' = year)
        /\ op' = "YearForDate" => (pc' = "done" /\ year' = CalYear(date')) ]_vars

C13_Witness ==
  /\ op = "PeriodForDate"
  /\ pc = "scan"
  /\ Before(date, first)
  /\ idx > 13
  /\ <<start, end>> = Period(FirstFiscalYear, 12)

\* The month of day k (from 0) of year y, scanning months from m.
RECURSIVE MonthFrom(_, _, _)
MonthFrom(y, m, k) ==
  IF k >= DaysInMonth(y, m) THEN MonthFrom(y, m + 1, k - DaysInMonth(y, m))
  ELSE m

\* The calendar month of an instant.
CalMonth(t) ==
  LET yd == YearFrom(AnchorCalYear, t.d + AnchorDayOfYear)
  IN  MonthFrom(yd[1], 1, yd[2])

\* Midnight of a date from September 25 to October 1.
InStartWindow(t) ==
  /\ t.s = 0
  /\ t.n = 0
  /\ \/ CalMonth(t) = 9 /\ CalDay(t) >= 25
     \/ CalMonth(t) = 10 /\ CalDay(t) = 1

\* C14: in every pass of Year's walk the fiscal-year start is midnight of a
\* date from September 25 to October 1 and the candidate end lies in the
\* calendar year after that of the previous pass, so that pass k ends in
\* calendar year 2005 + k; for y >= 2006 the fiscal year Year(y) returns is
\* the one whose exclusive end lies in calendar year y.
C14_WalkAdvancesOneYearPerPass ==
  op = "Year" =>
    /\ InStartWindow(start)
    /\ pc = "walk" =>
         /\ CalYear(start) = AnchorCalYear + iters
         /\ CalYear(CandidateEnd(start)) = CalYear(start) + 1
    /\ pc = "done" =>
         /\ CalYear(AddNanosecond(end)) = AnchorCalYear + iters
         /\ InStartWindow(AddNanosecond(end))
         /\ year >= FirstFiscalYear => CalYear(AddNanosecond(end)) = year

C14_Witness ==
  /\ op = "Year"
  /\ pc = "done"
  /\ year > FirstFiscalYear
  /\ iters = year - AnchorCalYear
  /\ CalMonth(start) = 10
  /\ CalYear(AddNanosecond(end)) = year

====
